---------------------------- MODULE Spec2Model ----------------------------
(***************************************************************************)
(* Node discovery and fan-out query engine of the VAMDC portal.            *)
(*                                                                         *)
(* JavaScript strings are sequences of one-character strings, so that      *)
(* template literals, split, endsWith, parseInt and encodeURIComponent     *)
(* are computed character by character.  A JavaScript object is a record   *)
(* whose DOMAIN is the set of properties it has: an optional property that *)
(* was never assigned is absent from the DOMAIN.                           *)
(*                                                                         *)
(* The event loop is modelled as in the HTML standard: a task (a user      *)
(* event, a network event, a timer callback) runs only when the microtask  *)
(* queue is empty, and the continuations of awaits run as microtasks in    *)
(* FIFO order.                                                             *)
(***************************************************************************)
EXTENDS Integers, Sequences, FiniteSets, TLC

VARIABLES
    nodes,        \* App.vue: nodes.value
    results,      \* App.vue: results.value
    querying,     \* App.vue: querying.value
    loading,      \* App.vue: loading.value
    error,        \* App.vue: error.value
    answer,       \* what the fetch() of fetchNodes settled with, once it has
    params,       \* the QueryParams of the running round
    pc,           \* per started probe: position of its map callback / queryNode
    fetchState,   \* per started probe: the settled outcome of fetch(), or Pending
    requestUrl,   \* per started probe: the url its fetch() was called with
    timer,        \* per started probe: state of the setTimeout timer
    aborted,      \* per started probe: controller.signal.aborted
    response,     \* per started probe: the NodeResponse queryNode returned
    sinkLog,      \* the arguments onProgress was called with, in call order
    allValues,    \* Promise.all: the values collected so far, by index
    allState,     \* Promise.all: "none" | "pending" | "fulfilled" | "rejected"
    returned,     \* the array queryAllNodes' promise resolved to
    mq,           \* the microtask queue
    now,          \* milliseconds on the event loop's clock, counted from the
                  \* last call of queryAllNodes (from page load before it)
    deadline,     \* per started probe: the time its timer is due
    settleOrder   \* the probes in the order their fetch() settled

vars == <<nodes, results, querying, loading, error, answer, params, pc,
          fetchState, requestUrl, timer, aborted, response, sinkLog, allValues,
          allState, returned, mq, now, deadline, settleOrder>>

------------------------------------------------------------------------------
(* Bounds of the model *)

MaxNodes == 3

\* The number of records of a registry document or of a static list in the
\* resolver specification.
MaxRecords == 2

------------------------------------------------------------------------------
(* Strings *)

\* null / undefined where a string is expected: no string (a sequence of
\* one-character strings) equals it.
Null == <<"null">>

\* NaN: an integer no parseInt of a modelled header value produces.
NaN == 0 - 2^30

Digits == <<"0", "1", "2", "3", "4", "5", "6", "7", "8", "9">>

DigitSet == {"0", "1", "2", "3", "4", "5", "6", "7", "8", "9"}

DigitVal ==
    ("0" :> 0) @@ ("1" :> 1) @@ ("2" :> 2) @@ ("3" :> 3) @@ ("4" :> 4)
    @@ ("5" :> 5) @@ ("6" :> 6) @@ ("7" :> 7) @@ ("8" :> 8) @@ ("9" :> 9)

\* `${n}` for a non-negative integer n.
RECURSIVE NumToStr(_)
NumToStr(n) ==
    IF n < 10 THEN <<Digits[n + 1]>>
    ELSE NumToStr(n \div 10) \o <<Digits[(n % 10) + 1]>>

WhiteSpace == {" ", "\t", "\n", "\r"}

\* The first position from k on that holds no white space.
RECURSIVE SkipSpace(_, _)
SkipSpace(s, k) ==
    IF k <= Len(s) /\ s[k] \in WhiteSpace THEN SkipSpace(s, k + 1) ELSE k

\* The value of the digits of s from position k on, up to the first
\* character that is no digit.
RECURSIVE DigitsValue(_, _, _)
DigitsValue(s, k, acc) ==
    IF k <= Len(s) /\ s[k] \in DigitSet
    THEN DigitsValue(s, k + 1, acc * 10 + DigitVal[s[k]])
    ELSE acc

\* parseInt(value, 10): leading white space and a sign are skipped, the
\* digits that follow are the value, and there is none (NaN) without a digit.
parseInt(value) ==
    LET a == SkipSpace(value, 1)
        neg == a <= Len(value) /\ value[a] = "-"
        b == IF a <= Len(value) /\ value[a] \in {"+", "-"} THEN a + 1 ELSE a
    IN  IF b > Len(value) \/ value[b] \notin DigitSet THEN NaN
        ELSE IF neg THEN 0 - DigitsValue(value, b, 0)
             ELSE DigitsValue(value, b, 0)

Unreserved ==
    {"A", "B", "C", "D", "E", "F", "G", "H", "I", "J", "K", "L", "M", "N", "O",
     "P", "Q", "R", "S", "T", "U", "V", "W", "X", "Y", "Z",
     "a", "b", "c", "d", "e", "f", "g", "h", "i", "j", "k", "l", "m", "n", "o",
     "p", "q", "r", "s", "t", "u", "v", "w", "x", "y", "z",
     "0", "1", "2", "3", "4", "5", "6", "7", "8", "9",
     "-", "_", ".", "!", "~", "*", "'", "(", ")"}

PercentCode(c) ==
    CASE c = " " -> <<"%", "2", "0">>
      [] c = "<" -> <<"%", "3", "C">>
      [] c = "=" -> <<"%", "3", "D">>
      [] c = ">" -> <<"%", "3", "E">>
      [] c = "/" -> <<"%", "2", "F">>
      [] c = ":" -> <<"%", "3", "A">>
      [] c = "?" -> <<"%", "3", "F">>
      [] c = "&" -> <<"%", "2", "6">>
      [] c = "+" -> <<"%", "2", "B">>
      [] c = "%" -> <<"%", "2", "5">>

encodeChar(c) == IF c \in Unreserved THEN <<c>> ELSE PercentCode(c)

\* The encodings of the characters of s at positions lo..hi, concatenated.
RECURSIVE encodeRange(_, _, _)
encodeRange(s, lo, hi) ==
    IF lo > hi THEN <<>>
    ELSE IF lo = hi THEN encodeChar(s[lo])
    ELSE encodeRange(s, lo, (lo + hi) \div 2)
         \o encodeRange(s, ((lo + hi) \div 2) + 1, hi)

\* (The argument is bound to its value, so that it is evaluated once.)
encodeURIComponent(s) ==
    CHOOSE e \in {encodeRange(v, 1, Len(v)) : v \in {s}} : TRUE

endsWith(s, c) == s # <<>> /\ s[Len(s)] = c

------------------------------------------------------------------------------
(* Query Encoder *)

SelectPrefix ==
    <<"S", "E", "L", "E", "C", "T", " ", "*", " ", "W", "H", "E", "R", "E", " ",
      "R", "a", "d", "T", "r", "a", "n", "s", "W", "a", "v", "e", "l", "e", "n",
      "g", "t", "h", " ", ">", "=", " ">>

SelectInfix ==
    <<" ", "A", "N", "D", " ", "R", "a", "d", "T", "r", "a", "n", "s", "W", "a",
      "v", "e", "l", "e", "n", "g", "t", "h", " ", "<", "=", " ">>

SyncPath ==
    <<"s", "y", "n", "c", "?", "L", "A", "N", "G", "=", "V", "S", "S", "2", "&",
      "R", "E", "Q", "U", "E", "S", "T", "=", "d", "o", "Q", "u", "e", "r", "y",
      "&", "F", "O", "R", "M", "A", "T", "=", "X", "S", "A", "M", "S", "&",
      "Q", "U", "E", "R", "Y", "=">>

buildQueryString(p) ==
    SelectPrefix \o NumToStr(p.wavelengthMin) \o SelectInfix
        \o NumToStr(p.wavelengthMax)

\* The url built from the predicate as it is, not encoded.
buildDownloadUrlRaw(tapEndpoint, queryString) ==
    tapEndpoint \o SyncPath \o queryString

buildDownloadUrl(tapEndpoint, queryString) ==
    tapEndpoint \o SyncPath \o encodeURIComponent(queryString)

------------------------------------------------------------------------------
(* Node Directory Resolver, live strategy *)

NodePrefix == <<"n", "o", "d", "e", "-">>

Unknown == <<"U", "n", "k", "n", "o", "w", "n">>

\* s.split(' ')[0]: the characters before the first space.
RECURSIVE firstSpace(_, _)
firstSpace(s, k) ==
    IF k > Len(s) \/ s[k] = " " THEN k ELSE firstSpace(s, k + 1)

splitFirst(s) == SubSeq(s, 1, firstSpace(s, 1) - 1)

\* x || dflt for a string-or-null x.
OrElse(x, dflt) == IF x = Null \/ x = <<>> THEN dflt ELSE x

\* The forEach callback without the step that appends the '/'.
parseNodeElementNoSlash(el, index) ==
    LET title == OrElse(el.title, Unknown)
        url == splitFirst(OrElse(el.url, <<>>))
    IN  IF url # <<>>
        THEN <<[id |-> NodePrefix \o NumToStr(index), name |-> title,
                tapEndpoint |-> url]>>
        ELSE <<>>

\* The body of the forEach callback: the nodes pushed for element el at
\* (0-based) position index.
parseNodeElement(el, index) ==
    LET title == OrElse(el.title, Unknown)
        url0 == splitFirst(OrElse(el.url, <<>>))
        url == IF url0 # <<>> /\ ~endsWith(url0, "/") THEN url0 \o <<"/">>
               ELSE url0
    IN  IF url # <<>>
        THEN <<[id |-> NodePrefix \o NumToStr(index), name |-> title,
                tapEndpoint |-> url]>>
        ELSE <<>>

\* The number of nodes pushed for the elements before position k.
RECURSIVE pushedBefore(_, _)
pushedBefore(els, k) ==
    IF k <= 1 THEN 0
    ELSE pushedBefore(els, k - 1) + Len(parseNodeElement(els[k - 1], 0))

\* A forEach whose ids count the nodes pushed so far (`node-${nodes.length}`).
RECURSIVE parseNodesFromByLength(_, _)
parseNodesFromByLength(els, k) ==
    IF k > Len(els) THEN <<>>
    ELSE parseNodeElement(els[k], pushedBefore(els, k))
         \o parseNodesFromByLength(els, k + 1)

RECURSIVE parseNodesFrom(_, _)
parseNodesFrom(els, k) ==
    IF k > Len(els) THEN <<>>
    ELSE parseNodeElement(els[k], k - 1) \o parseNodesFrom(els, k + 1)

parseNodesXml(els) == parseNodesFrom(els, 1)

------------------------------------------------------------------------------
(* Node Prober: queryNode *)

UpperCase ==
    <<"A", "B", "C", "D", "E", "F", "G", "H", "I", "J", "K", "L", "M", "N", "O",
      "P", "Q", "R", "S", "T", "U", "V", "W", "X", "Y", "Z">>

LowerCase ==
    <<"a", "b", "c", "d", "e", "f", "g", "h", "i", "j", "k", "l", "m", "n", "o",
      "p", "q", "r", "s", "t", "u", "v", "w", "x", "y", "z">>

LowerOf == [c \in {UpperCase[k] : k \in 1..26} |->
               LowerCase[CHOOSE k \in 1..26 : UpperCase[k] = c]]

toLowerChar(c) == IF c \in DOMAIN LowerOf THEN LowerOf[c] ELSE c

toLowerCase(s) == [k \in 1..Len(s) |-> toLowerChar(s[k])]

\* Headers.get(name): header names match case-insensitively; the values of
\* all matching headers are joined by ", "; null when none matches.
RECURSIVE headerValues(_, _, _)
headerValues(hs, name, k) ==
    IF k > Len(hs) THEN <<>>
    ELSE (IF toLowerCase(hs[k][1]) = toLowerCase(name)
          THEN <<hs[k][2]>> ELSE <<>>)
         \o headerValues(hs, name, k + 1)

RECURSIVE joinValues(_, _)
joinValues(vs, k) ==
    IF k = Len(vs) THEN vs[k]
    ELSE vs[k] \o <<",", " ">> \o joinValues(vs, k + 1)

headersGet(hs, name) ==
    LET vs == headerValues(hs, name, 1)
    IN  IF vs = <<>> THEN Null ELSE joinValues(vs, 1)

\* getHeader without the default for an absent header.
getHeaderNoDefault(hs, name) ==
    CHOOSE n \in {parseInt(value) : value \in {headersGet(hs, name)}} : TRUE

\* value ? parseInt(value, 10) : 0
\* (value is bound to what headers.get returned, so that it is evaluated once.)
getHeader(hs, name) ==
    CHOOSE n \in {IF value # Null /\ value # <<>> THEN parseInt(value) ELSE 0 :
                     value \in {headersGet(hs, name)}} : TRUE

H_SPECIES ==
    <<"V", "A", "M", "D", "C", "-", "C", "O", "U", "N", "T", "-",
      "S", "P", "E", "C", "I", "E", "S">>

H_STATES ==
    <<"V", "A", "M", "D", "C", "-", "C", "O", "U", "N", "T", "-",
      "S", "T", "A", "T", "E", "S">>

H_RADIATIVE ==
    <<"V", "A", "M", "D", "C", "-", "C", "O", "U", "N", "T", "-",
      "R", "A", "D", "I", "A", "T", "I", "V", "E">>

HttpPrefix == <<"H", "T", "T", "P", " ">>

RequestTimeout ==
    <<"R", "e", "q", "u", "e", "s", "t", " ", "t", "i", "m", "e", "o", "u", "t">>

UnknownError ==
    <<"U", "n", "k", "n", "o", "w", "n", " ", "e", "r", "r", "o", "r">>

\* response.ok taken to mean "not an error status".
responseOkBelow400(r) == r.status < 400

\* response.ok
responseOk(r) == r.status >= 200 /\ r.status <= 299

\* The result for a response whose status is not a success status.
httpErrorResult(node, r) ==
    [nodeId |-> node.id, nodeName |-> node.name, status |-> "error",
     error |-> HttpPrefix \o NumToStr(r.status)]

\* A success result that links to the node's base url.
successResultBaseUrl(node, r, url) ==
    [nodeId |-> node.id, nodeName |-> node.name, status |-> "success",
     numSpecies |-> getHeader(r.headers, H_SPECIES),
     numStates |-> getHeader(r.headers, H_STATES),
     numTransitions |-> getHeader(r.headers, H_RADIATIVE),
     downloadUrl |-> node.tapEndpoint]

\* The result for a response with a success status.
successResult(node, r, url) ==
    [nodeId |-> node.id, nodeName |-> node.name, status |-> "success",
     numSpecies |-> getHeader(r.headers, H_SPECIES),
     numStates |-> getHeader(r.headers, H_STATES),
     numTransitions |-> getHeader(r.headers, H_RADIATIVE),
     downloadUrl |-> url]

\* How a call ends: it returns a value or it throws one.
Return(v) == [type |-> "return", value |-> v]

Throw(e) == [type |-> "throw", value |-> e]

\* A catch block that tests for the wrong error name.
catchResultWrongName(node, err) ==
    IF err.isError /\ err.name = "TimeoutError"
    THEN Return([nodeId |-> node.id, nodeName |-> node.name,
                 status |-> "timeout", error |-> RequestTimeout])
    ELSE Return([nodeId |-> node.id, nodeName |-> node.name,
                 status |-> "error",
                 error |-> IF err.isError THEN err.message ELSE UnknownError])

\* A catch block that rethrows what is not an abort.
catchResultRethrow(node, err) ==
    IF err.isError /\ err.name = "AbortError"
    THEN Return([nodeId |-> node.id, nodeName |-> node.name,
                 status |-> "timeout", error |-> RequestTimeout])
    ELSE Throw(err)

\* A catch block that reports every failure of the request as a timeout.
catchResultAnyTimeout(node, err) ==
    Return([nodeId |-> node.id, nodeName |-> node.name,
            status |-> "timeout", error |-> RequestTimeout])

\* The catch block: err is what the awaited fetch() rejected with.
catchResult(node, err) ==
    IF err.isError /\ err.name = "AbortError"
    THEN Return([nodeId |-> node.id, nodeName |-> node.name,
                 status |-> "timeout", error |-> RequestTimeout])
    ELSE Return([nodeId |-> node.id, nodeName |-> node.name,
                 status |-> "error",
                 error |-> IF err.isError THEN err.message ELSE UnknownError])

\* queryNode with the fetch() awaited outside the try block.
queryNodeUncaught(node, p, o) ==
    LET url == buildDownloadUrl(node.tapEndpoint, buildQueryString(p))
    IN  IF o.kind = "response"
        THEN IF ~responseOk(o) THEN Return(httpErrorResult(node, o))
             ELSE Return(successResult(node, o, url))
        ELSE Throw(o)

\* How queryNode ends once the awaited fetch() has settled with outcome o:
\* a response (kind "response") or a rejection (kind "throw").
queryNode(node, p, o) ==
    LET url == buildDownloadUrl(node.tapEndpoint, buildQueryString(p))
    IN  IF o.kind = "response"
        THEN IF ~responseOk(o) THEN Return(httpErrorResult(node, o))
             ELSE Return(successResult(node, o, url))
        ELSE catchResult(node, o)


------------------------------------------------------------------------------
(* Node Directory Resolver: fetchNodes *)

RegistryFetchFailed ==
    <<"R", "e", "g", "i", "s", "t", "r", "y", " ", "f", "e", "t", "c", "h", " ",
      "f", "a", "i", "l", "e", "d", ":", " ">>

FailedToLoadNodes ==
    <<"F", "a", "i", "l", "e", "d", " ", "t", "o", " ", "l", "o", "a", "d", " ",
      "n", "o", "d", "e", "s", ":", " ">>

\* new Error(message)
Error(message) == [isError |-> TRUE, name |-> "Error", message |-> message]

\* The live strategy.  a is what the awaited fetch() of the registry settled
\* with: a rejection, or a response with a status, a status text and, as its
\* text, a document given by its <node> elements.
fetchNodesLive(a) ==
    IF a.kind = "throw" THEN Throw(a)
    ELSE IF ~responseOk(a) THEN Throw(Error(RegistryFetchFailed \o a.statusText))
    ELSE Return(parseNodesXml(a.doc))

\* The static strategy with the status of the answer left unchecked.
fetchNodesStaticUnchecked(a) ==
    IF a.kind = "throw" THEN Throw(a)
    ELSE IF a.json.valid THEN Return(a.json.value)
    ELSE Throw([isError |-> TRUE, name |-> "SyntaxError",
                message |-> a.json.text])

\* The static strategy.  a is what the awaited fetch() of nodes.json settled
\* with; response.json() rejects with a SyntaxError when the body is no JSON
\* text and resolves with the parsed value otherwise.
fetchNodesStatic(a) ==
    IF a.kind = "throw" THEN Throw(a)
    ELSE IF ~responseOk(a) THEN Throw(Error(FailedToLoadNodes \o a.statusText))
    ELSE IF a.json.valid THEN Return(a.json.value)
    ELSE Throw([isError |-> TRUE, name |-> "SyntaxError",
                message |-> a.json.text])


------------------------------------------------------------------------------
(* Inputs *)

\* The QueryParams the form submits in the fan-out specification: the form's
\* initial values.
FanOutParams == {[wavelengthMin |-> 4000, wavelengthMax |-> 5000]}

\* The <node> elements a registry answer is made of: one with a url (that
\* lacks the trailing '/') and one with no url.
FanOutElements ==
    {[title |-> <<"A">>, url |-> <<"h", ":", "/", "/", "a">>],
     [title |-> Null, url |-> Null]}

RECURSIVE SeqsUpTo(_, _)
SeqsUpTo(S, n) ==
    IF n = 0 THEN {<<>>}
    ELSE LET shorter == SeqsUpTo(S, n - 1)
         IN  shorter \cup {Append(s, x) : s \in {q \in shorter : Len(q) = n - 1},
                                          x \in S}

RegistryDocs == SeqsUpTo(FanOutElements, MaxNodes)

\* What fetchNodes rejects with.
FetchNodesErrors ==
    {[isError |-> TRUE, name |-> "Error",
      message |-> <<"F", "a", "i", "l", "e", "d">>]}

Header(name, value) == <<name, value>>

\* What the awaited fetch() of a probe settles with, other than the abort:
\* the response of the spec's scenario, a non-success status, a network error.
FanOutOutcomes ==
    {[kind |-> "response", status |-> 200,
      headers |-> <<Header(H_SPECIES, <<"1", "2">>),
                    Header(H_STATES, <<"4", "0">>)>>],
     [kind |-> "response", status |-> 404, headers |-> <<>>],
     [kind |-> "throw", isError |-> TRUE, name |-> "TypeError",
      message |-> <<"F", "a", "i", "l", "e", "d", " ", "t", "o", " ",
                    "f", "e", "t", "c", "h">>]}

\* The rejection of fetch() when its signal is aborted.
AbortError ==
    [kind |-> "throw", isError |-> TRUE, name |-> "AbortError",
     message |-> <<"A", "b", "o", "r", "t", "e", "d">>]

\* The inputs of the probe specification: one node, taken from a registry
\* answer, and every kind of outcome of its fetch().
ProbeDocs ==
    {<<[title |-> <<"A">>, url |-> <<"h", ":", "/", "/", "a">>]>>,
     <<[title |-> <<"X">>,
        url |-> <<"h", "t", "t", "p", "s", ":", "/", "/", "x", ".", "o", "r",
                  "g", "/", "t", "a", "p", "/">>]>>,
     <<[title |-> Null, url |-> Null],
       [title |-> <<>>, url |-> <<"h", ":", "/", "/", "b", "/">>]>>}

ProbeParams ==
    {[wavelengthMin |-> 4000, wavelengthMax |-> 5000],
     [wavelengthMin |-> 5000, wavelengthMax |-> 10],
     [wavelengthMin |-> 0, wavelengthMax |-> 0]}

\* What a node may send for one statistics header: nothing, or the header
\* under either spelling of its name with a numeric, a non-numeric or an
\* empty value.
HeaderChoices(name) ==
    {<<>>,
     <<Header(name, <<"1", "2">>)>>,
     <<Header(toLowerCase(name), <<"4", "0">>)>>,
     <<Header(name, <<"a", "b", "c">>)>>,
     <<Header(name, <<>>)>>}

ProbeHeaders ==
    {a \o b \o c : a \in HeaderChoices(H_SPECIES), b \in HeaderChoices(H_STATES),
                   c \in HeaderChoices(H_RADIATIVE)}

FullHeaders ==
    <<Header(H_SPECIES, <<"1", "2">>), Header(H_STATES, <<"4", "0">>),
      Header(H_RADIATIVE, <<"1", "2">>)>>

ProbeOutcomes ==
    {[kind |-> "response", status |-> s, headers |-> h] :
        s \in {200, 204, 299}, h \in ProbeHeaders}
    \cup {[kind |-> "response", status |-> s, headers |-> h] :
        s \in {304, 404, 500}, h \in {<<>>, FullHeaders}}
    \cup {[kind |-> "throw", isError |-> TRUE, name |-> "TypeError",
           message |-> <<"F", "a", "i", "l", "e", "d", " ", "t", "o", " ",
                         "f", "e", "t", "c", "h">>],
          [kind |-> "throw", isError |-> TRUE, name |-> "Error",
           message |-> <<>>],
          [kind |-> "throw", isError |-> FALSE, name |-> "AbortError",
           message |-> <<"x">>]}

\* The <node> elements of the registry answers of the resolver
\* specification, by the text of their <url>: one candidate without the
\* trailing '/', no <url>, two candidates separated by a space, two
\* candidates separated by a tab, one candidate after a leading space.
LiveElements ==
    {[title |-> <<"A">>, url |-> <<"h", ":", "/", "/", "a">>],
     [title |-> Null, url |-> Null],
     [title |-> <<"B">>,
      url |-> <<"h", ":", "/", "/", "b", "/", " ", "h", ":", "/", "/", "c">>],
     [title |-> <<"C">>,
      url |-> <<"h", ":", "/", "/", "c", "\t", "h", ":", "/", "/", "d">>],
     [title |-> <<"D">>, url |-> <<" ", "h", ":", "/", "/", "d">>]}

LiveDocs == SeqsUpTo(LiveElements, MaxRecords)

\* The answer of the registry with a success status and the document doc.
Ok(doc) ==
    [kind |-> "response", status |-> 200, statusText |-> <<"O", "K">>,
     doc |-> doc]

FailedToFetch ==
    [kind |-> "throw", isError |-> TRUE, name |-> "TypeError",
     message |-> <<"F", "a", "i", "l", "e", "d", " ", "t", "o", " ",
                   "f", "e", "t", "c", "h">>]

NotFound == <<"N", "o", "t", " ", "F", "o", "u", "n", "d">>

\* What the fetch() of the registry settles with: an answer with a success
\* status, an answer with another status (with or without a document), or a
\* network failure.
LiveAnswers ==
    {Ok(d) : d \in LiveDocs}
    \cup {[kind |-> "response", status |-> 404, statusText |-> NotFound,
           doc |-> <<>>],
          [kind |-> "response", status |-> 500, statusText |-> <<>>,
           doc |-> <<[title |-> <<"A">>, url |-> <<"h", ":", "/", "/", "a">>]>>],
          FailedToFetch}

\* The Node records of the pre-published static list: ids assigned in
\* advance, base urls that end with '/'.
StaticNodes ==
    {[id |-> <<"x">>, name |-> <<"X">>,
      tapEndpoint |-> <<"h", "t", "t", "p", "s", ":", "/", "/", "x", ".", "o",
                        "r", "g", "/", "t", "a", "p", "/">>],
     [id |-> <<"y">>, name |-> <<"Y">>,
      tapEndpoint |-> <<"h", ":", "/", "/", "y", "/">>]}

StaticLists ==
    {s \in SeqsUpTo(StaticNodes, MaxRecords) :
        \A i, j \in 1..Len(s) : s[i].id = s[j].id => i = j}

\* What the fetch() of nodes.json settles with: the list, an answer with
\* another status (whose body may be JSON all the same), a body that is no
\* JSON text, or a network failure.
StaticAnswers ==
    {[kind |-> "response", status |-> 200, statusText |-> <<"O", "K">>,
      json |-> [valid |-> TRUE, value |-> s]] : s \in StaticLists}
    \cup {[kind |-> "response", status |-> 404, statusText |-> NotFound,
           json |-> [valid |-> FALSE, text |-> <<"<">>]],
          [kind |-> "response", status |-> 500, statusText |-> <<>>,
           json |-> [valid |-> TRUE,
                     value |-> <<CHOOSE n \in StaticNodes : TRUE>>]],
          [kind |-> "response", status |-> 200, statusText |-> <<"O", "K">>,
           json |-> [valid |-> FALSE, text |-> <<"<">>]],
          FailedToFetch}

\* What the fetch() of a probe settles with in the resolver specification.
ResolveOutcomes ==
    {[kind |-> "response", status |-> 200,
      headers |-> <<Header(H_SPECIES, <<"1", "2">>)>>],
     [kind |-> "response", status |-> 404, headers |-> <<>>]}

------------------------------------------------------------------------------
(* State *)

Pending == [kind |-> "pending"]

NoResponse == [status |-> "none"]

NoAnswer == [kind |-> "none"]

timeout == 30000

\* The granularity of the clock: three steps to a deadline.
TickMs == timeout \div 3

N == Len(nodes)

Probes == DOMAIN pc

Init ==
    /\ nodes = <<>>
    /\ results = <<>>
    /\ querying = FALSE
    /\ loading = TRUE
    /\ error = Null
    /\ answer = NoAnswer
    /\ params = [wavelengthMin |-> 0, wavelengthMax |-> 0]
    /\ pc = <<>>
    /\ fetchState = <<>>
    /\ requestUrl = <<>>
    /\ timer = <<>>
    /\ aborted = <<>>
    /\ response = <<>>
    /\ sinkLog = <<>>
    /\ allValues = <<>>
    /\ allState = "none"
    /\ returned = <<>>
    /\ mq = <<>>
    /\ now = 0
    /\ deadline = <<>>
    /\ settleOrder = <<>>

appVars == <<nodes, results, querying, loading, error, answer>>

probeVars == <<pc, fetchState, requestUrl, timer, aborted, response, deadline>>

allVars == <<allValues, allState, returned>>

------------------------------------------------------------------------------
(* App.vue: onMounted *)

\* fetchNodes() resolved with list.
onMountedResolve(list) ==
    /\ loading
    /\ mq = <<>>
    /\ nodes' = list
    /\ loading' = FALSE
    /\ UNCHANGED <<results, querying, error, params, probeVars, sinkLog,
                   allVars, mq, now, settleOrder>>

\* fetchNodes() rejected with err.
onMountedReject(err) ==
    /\ loading
    /\ mq = <<>>
    /\ error' = (IF err.isError THEN err.message
                 ELSE <<"F", "a", "i", "l", "e", "d", " ", "t", "o", " ",
                        "l", "o", "a", "d", " ", "n", "o", "d", "e", "s">>)
    /\ loading' = FALSE
    /\ UNCHANGED <<nodes, results, querying, params, probeVars, sinkLog,
                   allVars, mq, now, settleOrder>>

------------------------------------------------------------------------------
(* App.vue: handleQuery, up to its await; services/nodes: queryAllNodes *)

\* The entries handleQuery creates.
pendingResults(ns) ==
    [i \in 1..Len(ns) |->
        [nodeId |-> ns[i].id, nodeName |-> ns[i].name, status |-> "pending"]]

\* A form that is disabled while the nodes load only.
formEnabledLoadingOnly == ~loading

\* ResultsTable's total: the number of entries of the results list.
total == Len(results)

\* A progress count of the entries that succeeded.
completedSuccesses ==
    Cardinality({k \in DOMAIN results : results[k].status = "success"})

\* ResultsTable's completed: the number of entries that are not pending.
completed ==
    Cardinality({k \in DOMAIN results : results[k].status # "pending"})

\* The form's submit button is enabled.
formEnabled == ~(querying \/ loading)

\* A queryAllNodes that awaits each probe before it starts the next: the call
\* starts the first probe only.
handleQuerySequential(p) ==
    /\ formEnabled
    /\ mq = <<>>
    /\ querying' = TRUE
    /\ results' = pendingResults(nodes)
    /\ params' = p
    /\ pc' = [i \in 1..N |-> IF i = 1 THEN "fetch" ELSE "waiting"]
    /\ fetchState' = [i \in 1..N |-> Pending]
    /\ requestUrl' = [i \in 1..N |->
                         buildDownloadUrl(nodes[i].tapEndpoint,
                                          buildQueryString(p))]
    /\ timer' = [i \in 1..N |-> IF i = 1 THEN "armed" ELSE "unset"]
    /\ aborted' = [i \in 1..N |-> FALSE]
    /\ now' = 0
    /\ deadline' = [i \in 1..N |-> now' + timeout]
    /\ response' = [i \in 1..N |-> NoResponse]
    /\ sinkLog' = <<>>
    /\ settleOrder' = <<>>
    /\ allValues' = [i \in 1..N |-> NoResponse]
    /\ allState' = IF N = 0 THEN "fulfilled" ELSE "pending"
    /\ returned' = <<>>
    /\ mq' = IF N = 0 THEN <<<<"handleQuery", 0>>>> ELSE <<>>
    /\ UNCHANGED <<nodes, loading, error, answer>>

\* querying.value = true; results.value = ...; then queryAllNodes runs every
\* map callback up to its first await (controller, timer, fetch started) and
\* calls Promise.all, which resolves at once for an empty array.
handleQuery(p) ==
    /\ formEnabled
    /\ mq = <<>>
    /\ querying' = TRUE
    /\ results' = pendingResults(nodes)
    /\ params' = p
    /\ pc' = [i \in 1..N |-> "fetch"]
    /\ fetchState' = [i \in 1..N |-> Pending]
    /\ requestUrl' = [i \in 1..N |->
                         buildDownloadUrl(nodes[i].tapEndpoint,
                                          buildQueryString(p))]
    /\ timer' = [i \in 1..N |-> "armed"]
    /\ aborted' = [i \in 1..N |-> FALSE]
    /\ now' = 0
    /\ deadline' = [i \in 1..N |-> now' + timeout]
    /\ response' = [i \in 1..N |-> NoResponse]
    /\ sinkLog' = <<>>
    /\ settleOrder' = <<>>
    /\ allValues' = [i \in 1..N |-> NoResponse]
    /\ allState' = IF N = 0 THEN "fulfilled" ELSE "pending"
    /\ returned' = <<>>
    /\ mq' = IF N = 0 THEN <<<<"handleQuery", 0>>>> ELSE <<>>
    /\ UNCHANGED <<nodes, loading, error, answer>>

------------------------------------------------------------------------------
(* Tasks: the network, the timers, the clock *)

\* The fetch() of probe i settles with outcome o.
fetchSettles(i, o) ==
    /\ mq = <<>>
    /\ i \in Probes
    /\ pc[i] = "fetch"
    /\ fetchState' = [fetchState EXCEPT ![i] = o]
    /\ pc' = [pc EXCEPT ![i] = "queryNode"]
    /\ mq' = <<<<"queryNode", i>>>>
    /\ settleOrder' = Append(settleOrder, i)
    /\ UNCHANGED <<appVars, params, requestUrl, timer, aborted, response,
                   deadline, sinkLog, allVars, now>>

\* Timers that are due run in the order they were set.
timerDue(i) ==
    /\ timer[i] = "armed"
    /\ now >= deadline[i]
    /\ \A j \in Probes : j < i => timer[j] # "armed"

\* The timer callback when fetch() was not given the signal: the signal is
\* aborted and the fetch() goes on.
timerCallbackNoSignal(i) ==
    /\ mq = <<>>
    /\ i \in Probes
    /\ timerDue(i)
    /\ timer' = [timer EXCEPT ![i] = "fired"]
    /\ aborted' = [aborted EXCEPT ![i] = TRUE]
    /\ UNCHANGED <<appVars, params, fetchState, requestUrl, pc, mq,
                   settleOrder, response, deadline, sinkLog, allVars, now>>

\* The timer callback when one AbortController is shared by all probes: every
\* fetch() that has not settled rejects; the continuation of the probe whose
\* timer fired runs first.
timerCallbackShared(i) ==
    /\ mq = <<>>
    /\ i \in Probes
    /\ timerDue(i)
    /\ pc[i] = "fetch"
    /\ timer' = [timer EXCEPT ![i] = "fired"]
    /\ aborted' = [j \in Probes |-> TRUE]
    /\ fetchState' = [j \in Probes |->
                        IF pc[j] = "fetch" THEN AbortError ELSE fetchState[j]]
    /\ pc' = [j \in Probes |-> IF j = i THEN "queryNode" ELSE pc[j]]
    /\ mq' = <<<<"queryNode", i>>>>
    /\ settleOrder' = Append(settleOrder, i)
    /\ UNCHANGED <<appVars, params, requestUrl, response, deadline, sinkLog,
                   allVars, now>>

\* () => controller.abort(): the signal is aborted, and a fetch() that has
\* not settled rejects with an AbortError.
timerCallback(i) ==
    /\ mq = <<>>
    /\ i \in Probes
    /\ timerDue(i)
    /\ timer' = [timer EXCEPT ![i] = "fired"]
    /\ aborted' = [aborted EXCEPT ![i] = TRUE]
    /\ IF pc[i] = "fetch"
       THEN /\ fetchState' = [fetchState EXCEPT ![i] = AbortError]
            /\ pc' = [pc EXCEPT ![i] = "queryNode"]
            /\ mq' = <<<<"queryNode", i>>>>
            /\ settleOrder' = Append(settleOrder, i)
       ELSE UNCHANGED <<fetchState, pc, mq, settleOrder>>
    /\ UNCHANGED <<appVars, params, requestUrl, response, deadline, sinkLog,
                   allVars, now>>

\* Time passes between tasks, while a timer is waiting for its deadline.
Tick ==
    /\ mq = <<>>
    /\ \E i \in Probes : timer[i] = "armed" /\ now < deadline[i]
    /\ now' = now + TickMs
    /\ UNCHANGED <<appVars, params, probeVars, sinkLog, allVars, mq,
                   settleOrder>>

------------------------------------------------------------------------------
(* Microtasks: the continuations of the awaits *)

\* A queryNode that calls fetch() again when the request failed.
queryNodeResumeRetry ==
    /\ mq # <<>>
    /\ Head(mq)[1] = "queryNode"
    /\ \E i \in {Head(mq)[2]} :
       \E c \in {queryNode(nodes[i], params, fetchState[i])} :
           IF c.value.status = "error"
           THEN /\ pc' = [pc EXCEPT ![i] = "fetch"]
                /\ fetchState' = [fetchState EXCEPT ![i] = Pending]
                /\ mq' = Tail(mq)
                /\ UNCHANGED response
           ELSE /\ response' = [response EXCEPT ![i] = c.value]
                /\ pc' = [pc EXCEPT ![i] = "map"]
                /\ mq' = Append(Tail(mq), <<"map", i>>)
                /\ UNCHANGED fetchState
    /\ UNCHANGED <<appVars, params, requestUrl, timer, aborted, deadline,
                   sinkLog, allVars, now, settleOrder>>

\* queryNode resumes after `await fetch(...)`.  When it returns, the map
\* callback that awaits it resumes next; if it threw, the map callback's
\* promise would reject at its await.
queryNodeResume ==
    /\ mq # <<>>
    /\ Head(mq)[1] = "queryNode"
    /\ \E i \in {Head(mq)[2]} :
       \E c \in {queryNode(nodes[i], params, fetchState[i])} :
           IF c.type = "return"
           THEN /\ response' = [response EXCEPT ![i] = c.value]
                /\ pc' = [pc EXCEPT ![i] = "map"]
                /\ mq' = Append(Tail(mq), <<"map", i>>)
           ELSE /\ pc' = [pc EXCEPT ![i] = "failed"]
                /\ mq' = Append(Tail(mq), <<"all", i>>)
                /\ UNCHANGED response
    /\ UNCHANGED <<appVars, params, fetchState, requestUrl, timer, aborted,
                   deadline, sinkLog, allVars, now, settleOrder>>

\* A map callback that leaves its timer running.
clearTimeoutForgotten(t) == t

\* clearTimeout(timer)
clearTimeout(t) == IF t = "armed" THEN "cleared" ELSE t

\* A progress callback that finds the entry by the node's name.
onProgressByName(rs, r) ==
    IF \E k \in 1..Len(rs) : rs[k].nodeName = r.nodeName
    THEN LET index == CHOOSE k \in 1..Len(rs) :
                          /\ rs[k].nodeName = r.nodeName
                          /\ \A j \in 1..(k - 1) : rs[j].nodeName # r.nodeName
         IN  [rs EXCEPT ![index] = r]
    ELSE rs

\* handleQuery's progress callback: the entry with the response's nodeId, if
\* there is one, is replaced by the response.
onProgress(rs, r) ==
    IF \E k \in 1..Len(rs) : rs[k].nodeId = r.nodeId
    THEN LET index == CHOOSE k \in 1..Len(rs) :
                          /\ rs[k].nodeId = r.nodeId
                          /\ \A j \in 1..(k - 1) : rs[j].nodeId # r.nodeId
         IN  [rs EXCEPT ![index] = r]
    ELSE rs

\* A map callback that reports successes only.
sinkCallsOnSuccess(log, r) == IF r.status = "success" THEN Append(log, r) ELSE log

\* A map callback that reports the node and the status only.
sinkCallsSummary(log, r) ==
    Append(log, [nodeId |-> r.nodeId, nodeName |-> r.nodeName,
                 status |-> r.status])

\* The calls of the progress sink so far, after the map callback of a probe
\* that ended with r has run `onProgress(response)`.
sinkCalls(log, r) == Append(log, r)

\* The map callback resumes after `await queryNode(...)`: clearTimeout,
\* onProgress(response), return response.
mapCallbackResume ==
    /\ mq # <<>>
    /\ Head(mq)[1] = "map"
    /\ LET i == Head(mq)[2]
       IN  /\ timer' = [timer EXCEPT ![i] = clearTimeout(timer[i])]
           /\ results' = onProgress(results, response[i])
           /\ sinkLog' = sinkCalls(sinkLog, response[i])
           /\ pc' = [pc EXCEPT ![i] = "done"]
           /\ mq' = Append(Tail(mq), <<"all", i>>)
    /\ UNCHANGED <<nodes, querying, loading, error, answer, params, fetchState,
                   requestUrl, aborted, response, deadline, allVars, now,
                   settleOrder>>

\* What a sink that writes to the object it was given leaves of it.
sinkMutation(r) == [r EXCEPT !.status = "pending"]

\* The map callback when the caller's sink is handleQuery's followed by a
\* write to its argument: `response`, the argument of the sink, the entry
\* stored in results and the value the callback returns are one object.
mapCallbackResumeSinkMutates ==
    /\ mq # <<>>
    /\ Head(mq)[1] = "map"
    /\ LET i == Head(mq)[2]
       IN  /\ timer' = [timer EXCEPT ![i] = clearTimeout(timer[i])]
           /\ sinkLog' = sinkCalls(sinkLog, response[i])
           /\ response' = [response EXCEPT ![i] = sinkMutation(response[i])]
           /\ results' = onProgress(results, response'[i])
           /\ pc' = [pc EXCEPT ![i] = "done"]
           /\ mq' = Append(Tail(mq), <<"all", i>>)
    /\ UNCHANGED <<nodes, querying, loading, error, answer, params, fetchState,
                   requestUrl, aborted, deadline, allVars, now, settleOrder>>

\* The caller's sink of the throwing-sink specification is handleQuery's
\* with a throw, ahead of it, for a result that reports an error.
sinkThrows(r) == r.status = "error"

\* A map callback that calls the sink before it clears its timer.
mapCallbackResumeSinkThrowsEarly ==
    /\ mq # <<>>
    /\ Head(mq)[1] = "map"
    /\ LET i == Head(mq)[2]
       IN  /\ sinkThrows(response[i])
           /\ sinkLog' = sinkCalls(sinkLog, response[i])
           /\ pc' = [pc EXCEPT ![i] = "failed"]
           /\ mq' = Append(Tail(mq), <<"all", i>>)
    /\ UNCHANGED <<appVars, params, fetchState, requestUrl, timer, aborted,
                   response, deadline, allVars, now, settleOrder>>

\* The map callback when the caller's sink throws: clearTimeout has run,
\* `onProgress(response)` throws, `return response` is not reached and the
\* callback's promise rejects.
mapCallbackResumeSinkThrows ==
    /\ mq # <<>>
    /\ Head(mq)[1] = "map"
    /\ LET i == Head(mq)[2]
       IN  /\ sinkThrows(response[i])
           /\ timer' = [timer EXCEPT ![i] = clearTimeout(timer[i])]
           /\ sinkLog' = sinkCalls(sinkLog, response[i])
           /\ pc' = [pc EXCEPT ![i] = "failed"]
           /\ mq' = Append(Tail(mq), <<"all", i>>)
    /\ UNCHANGED <<appVars, params, fetchState, requestUrl, aborted, response,
                   deadline, allVars, now, settleOrder>>

\* The map callback when that sink returns.
mapCallbackResumeSinkReturns ==
    /\ mq # <<>>
    /\ Head(mq)[1] = "map"
    /\ ~sinkThrows(response[Head(mq)[2]])
    /\ mapCallbackResume

\* Collecting the values in the order the promises fulfil.
storeValuePush(values, i, r) ==
    LET free == CHOOSE k \in DOMAIN values :
                    /\ values[k] = NoResponse
                    /\ \A j \in DOMAIN values : j < k => values[j] # NoResponse
    IN  [values EXCEPT ![free] = r]

\* Promise.all stores the value of the promise at index i of its input.
storeValue(values, i, r) == [values EXCEPT ![i] = r]

\* Fulfilling with the first input promise that fulfils.
anyFulfilled(values) == \E k \in DOMAIN values : values[k] # NoResponse

\* Promise.all fulfils once every input promise has fulfilled.
allFulfilled(values) == \A k \in DOMAIN values : values[k] # NoResponse

\* Promise.all's reaction to the settlement of promise i: a value is stored
\* at index i and the last one fulfils the promise queryAllNodes returned; a
\* rejection rejects it at once.  handleQuery, which awaits it, resumes next.
promiseAllReact ==
    /\ mq # <<>>
    /\ Head(mq)[1] = "all"
    /\ LET i == Head(mq)[2]
           values == storeValue(allValues, i, response[i])
       IN  IF pc[i] = "failed"
           THEN /\ UNCHANGED <<allValues, returned>>
                /\ IF allState = "pending"
                   THEN /\ allState' = "rejected"
                        /\ mq' = Append(Tail(mq), <<"handleQuery", 0>>)
                   ELSE /\ UNCHANGED allState
                        /\ mq' = Tail(mq)
           ELSE /\ allValues' = values
                /\ IF allFulfilled(values) /\ allState = "pending"
                   THEN /\ allState' = "fulfilled"
                        /\ returned' = values
                        /\ mq' = Append(Tail(mq), <<"handleQuery", 0>>)
                   ELSE /\ UNCHANGED <<allState, returned>>
                        /\ mq' = Tail(mq)
    /\ UNCHANGED <<appVars, params, probeVars, sinkLog, now, settleOrder>>

\* handleQuery resumes after `await queryAllNodes(...)`; a rejection is
\* rethrown by the await and `querying.value = false` is not reached.
handleQueryResume ==
    /\ mq # <<>>
    /\ Head(mq)[1] = "handleQuery"
    /\ querying' = (IF allState = "rejected" THEN querying ELSE FALSE)
    /\ mq' = Tail(mq)
    /\ UNCHANGED <<nodes, results, loading, error, answer, params, probeVars,
                   sinkLog, allVars, now, settleOrder>>

------------------------------------------------------------------------------
(* Specifications *)

Microtask ==
    \/ queryNodeResume
    \/ mapCallbackResume
    \/ promiseAllReact
    \/ handleQueryResume

Next ==
    \/ \E doc \in RegistryDocs :
          /\ onMountedResolve(parseNodesXml(doc))
          /\ answer' = Ok(doc)
    \/ \E err \in FetchNodesErrors :
          /\ onMountedReject(err)
          /\ answer' = err
    \/ \E p \in FanOutParams : handleQuery(p)
    \/ \E i \in 1..MaxNodes : \E o \in FanOutOutcomes : fetchSettles(i, o)
    \/ \E i \in 1..MaxNodes : timerCallback(i)
    \/ Tick
    \/ Microtask

Spec == Init /\ [][Next]_vars

\* What the event loop runs by itself: the microtask queue, the timer
\* callbacks that are due, the clock.
EventLoop ==
    \/ Microtask
    \/ \E i \in 1..MaxNodes : timerCallback(i)
    \/ Tick

\* The event loop keeps running what is ready; whether a node answers, and
\* whether the user submits, is not guaranteed.
Fairness == WF_vars(EventLoop)

FairSpec == Spec /\ Fairness

\* The probe specification: the application after it loaded a one-node list.
InitProbe ==
    /\ \E doc \in ProbeDocs : nodes = parseNodesXml(doc) /\ answer = Ok(doc)
    /\ results = <<>>
    /\ querying = FALSE
    /\ loading = FALSE
    /\ error = Null
    /\ params = [wavelengthMin |-> 0, wavelengthMax |-> 0]
    /\ pc = <<>>
    /\ fetchState = <<>>
    /\ requestUrl = <<>>
    /\ timer = <<>>
    /\ aborted = <<>>
    /\ response = <<>>
    /\ sinkLog = <<>>
    /\ allValues = <<>>
    /\ allState = "none"
    /\ returned = <<>>
    /\ mq = <<>>
    /\ now = 0
    /\ deadline = <<>>
    /\ settleOrder = <<>>

NextProbe ==
    \/ \E p \in ProbeParams : handleQuery(p)
    \/ \E o \in ProbeOutcomes : fetchSettles(1, o)
    \/ timerCallback(1)
    \/ Tick
    \/ Microtask

SpecProbe == InitProbe /\ [][NextProbe]_vars

\* The resolver specification: the application under either strategy of
\* fetchNodes, with every kind of answer of the node source.
NextResolve ==
    \/ /\ loading
       /\ \E a \in LiveAnswers : \E c \in {fetchNodesLive(a)} :
             /\ c.type = "return"
             /\ onMountedResolve(c.value)
             /\ answer' = a
    \/ /\ loading
       /\ \E a \in LiveAnswers : \E c \in {fetchNodesLive(a)} :
             /\ c.type = "throw"
             /\ onMountedReject(c.value)
             /\ answer' = a
    \/ /\ loading
       /\ \E a \in StaticAnswers : \E c \in {fetchNodesStatic(a)} :
             /\ c.type = "return"
             /\ onMountedResolve(c.value)
             /\ answer' = a
    \/ /\ loading
       /\ \E a \in StaticAnswers : \E c \in {fetchNodesStatic(a)} :
             /\ c.type = "throw"
             /\ onMountedReject(c.value)
             /\ answer' = a
    \/ \E p \in FanOutParams : handleQuery(p)
    \/ \E i \in 1..MaxRecords : \E o \in ResolveOutcomes : fetchSettles(i, o)
    \/ \E i \in 1..MaxRecords : timerCallback(i)
    \/ Tick
    \/ Microtask

SpecResolve == Init /\ [][NextResolve]_vars

\* The sink specification: queryAllNodes called with a sink that writes to
\* the result it is given.
NextSink ==
    \/ \E doc \in RegistryDocs :
          /\ onMountedResolve(parseNodesXml(doc))
          /\ answer' = Ok(doc)
    \/ \E p \in FanOutParams : handleQuery(p)
    \/ \E i \in 1..MaxNodes : \E o \in FanOutOutcomes : fetchSettles(i, o)
    \/ \E i \in 1..MaxNodes : timerCallback(i)
    \/ Tick
    \/ queryNodeResume
    \/ mapCallbackResumeSinkMutates
    \/ promiseAllReact
    \/ handleQueryResume

SpecSink == Init /\ [][NextSink]_vars

\* The throwing-sink specification: queryAllNodes called with a sink that
\* throws on some of its calls.
NextThrow ==
    \/ \E doc \in RegistryDocs :
          /\ onMountedResolve(parseNodesXml(doc))
          /\ answer' = Ok(doc)
    \/ \E p \in FanOutParams : handleQuery(p)
    \/ \E i \in 1..MaxNodes : \E o \in FanOutOutcomes : fetchSettles(i, o)
    \/ \E i \in 1..MaxNodes : timerCallback(i)
    \/ Tick
    \/ queryNodeResume
    \/ mapCallbackResumeSinkReturns
    \/ mapCallbackResumeSinkThrows
    \/ promiseAllReact
    \/ handleQueryResume

\* What the event loop runs by itself under the throwing sink.
EventLoopThrow ==
    \/ queryNodeResume
    \/ mapCallbackResumeSinkReturns
    \/ mapCallbackResumeSinkThrows
    \/ promiseAllReact
    \/ handleQueryResume
    \/ \E i \in 1..MaxNodes : timerCallback(i)
    \/ Tick

SpecThrow == Init /\ [][NextThrow]_vars /\ WF_vars(EventLoopThrow)

------------------------------------------------------------------------------
(* Properties *)

Terminal == {"success", "error", "timeout"}

DistinctIds(ns) ==
    \A i, j \in 1..Len(ns) : ns[i].id = ns[j].id => i = j

\* The number of entries of log that carry the nodeId id.
CountOf(log, id) == Cardinality({k \in DOMAIN log : log[k].nodeId = id})

\* The position of probe i in the order of settlement, 0 if it has not settled.
SettledAt(i) ==
    IF \E k \in DOMAIN settleOrder : settleOrder[k] = i
    THEN CHOOSE k \in DOMAIN settleOrder : settleOrder[k] = i
    ELSE 0

RoundDone == allState = "fulfilled"

\* C1: for a node list with pairwise distinct ids the progress sink is never
\* called more than once for a nodeId, and once the promise of queryAllNodes
\* has resolved the sink has been called exactly N times, exactly once for
\* each nodeId, and the returned array holds exactly N results, exactly one
\* for each nodeId.
C1_SinkOncePerNode ==
    DistinctIds(nodes) =>
        /\ Len(sinkLog) <= N
        /\ \A i \in 1..N : CountOf(sinkLog, nodes[i].id) <= 1
        /\ RoundDone =>
              /\ Len(sinkLog) = N
              /\ Len(returned) = N
              /\ \A i \in 1..N : /\ CountOf(sinkLog, nodes[i].id) = 1
                                 /\ CountOf(returned, nodes[i].id) = 1

\* A finished round over three nodes in which a node answered and a node ran
\* into its deadline.
C1_Witness ==
    /\ RoundDone
    /\ ~querying
    /\ N >= 3
    /\ \E i, j \in Probes : /\ response[i].status = "success"
                            /\ response[j].status = "timeout"

\* C2: the array queryAllNodes resolves to is in the order of the input nodes
\* (entry i belongs to nodes[i]) whatever order the probes settled in, and the
\* k-th call of the progress sink carries the result of the k-th probe to
\* settle.
C2_InputOrderAndCompletionOrder ==
    /\ RoundDone =>
          /\ Len(returned) = N
          /\ \A i \in 1..N : returned[i].nodeId = nodes[i].id
    /\ Len(sinkLog) <= Len(settleOrder)
    /\ \A k \in DOMAIN sinkLog : sinkLog[k].nodeId = nodes[settleOrder[k]].id

\* A finished round in which the last node of the list settled first.
C2_Witness ==
    /\ RoundDone
    /\ N >= 3
    /\ settleOrder[1] = N
    /\ settleOrder[N] = 1

\* C3: under fairness of the event loop (the timers, the clock and the
\* microtask queue), a round that was started eventually ends with every one
\* of its probes settled and run to the end of its map callback, whether or
\* not any node answers.  (A probe is in flight only while querying is true.)
C3_EveryRoundEnds ==
    querying ~> (/\ ~querying
                 /\ RoundDone
                 /\ \A i \in Probes : pc[i] = "done" /\ fetchState[i] # Pending)

\* A finished round over three nodes none of which answered.
C3_Witness ==
    /\ RoundDone
    /\ ~querying
    /\ N >= 3
    /\ \A i \in Probes : fetchState[i] = AbortError /\ pc[i] = "done"

\* C4: the promise of queryAllNodes never rejects and no probe's promise
\* rejects; once every fetch has settled and the microtasks have run it is
\* fulfilled, with one result of terminal status for every node.
C4_NeverRejects ==
    /\ allState # "rejected"
    /\ \A i \in Probes : pc[i] # "failed"
    /\ (allState # "none" /\ mq = <<>> /\ \A i \in Probes : pc[i] # "fetch")
          => (RoundDone /\ ~querying)
    /\ RoundDone =>
          /\ Len(returned) = N
          /\ \A i \in 1..N : returned[i].status \in Terminal

\* A finished round with a success, an HTTP error, and a timeout.
C4_Witness ==
    /\ RoundDone
    /\ \E i, j, k \in Probes :
          /\ returned[i].status = "success"
          /\ returned[j].status = "error" /\ fetchState[j].kind = "response"
          /\ returned[k].status = "timeout"

\* C5: when the promise of queryAllNodes is resolved no probe is in flight:
\* the fetch of every node has settled, queryNode has returned its result and
\* the map callback has run to its end.
C5_NoEarlyCompletion ==
    RoundDone =>
        \A i \in Probes : /\ pc[i] = "done"
                          /\ fetchState[i] # Pending
                          /\ response[i] # NoResponse

\* A finished round whose first probe to settle failed at once (before any
\* time had passed) and whose last one ran into its deadline.
C5_Witness ==
    /\ RoundDone
    /\ N >= 3
    /\ response[settleOrder[1]].status = "error"
    /\ response[settleOrder[N]].status = "timeout"
    /\ now >= timeout

\* C6: a timer callback runs only when 30 seconds have passed since the probe
\* was started, it triggers that node's abort signal, and a probe whose fetch
\* had not settled by then gets the result {status: timeout, error: "Request
\* timeout"}, which is what the sink and the returned array receive.
C6_DeadlineGivesTimeout ==
    \A i \in Probes :
        /\ aborted[i] <=> timer[i] = "fired"
        /\ timer[i] = "fired" =>
              /\ now >= 30000
              /\ fetchState[i] = AbortError
        /\ (fetchState[i] = AbortError /\ pc[i] \in {"map", "done"}) =>
              response[i] = [nodeId |-> nodes[i].id, nodeName |-> nodes[i].name,
                             status |-> "timeout",
                             error |-> <<"R", "e", "q", "u", "e", "s", "t", " ",
                                         "t", "i", "m", "e", "o", "u", "t">>]
        /\ (fetchState[i] = AbortError /\ pc[i] = "done") =>
              \E k \in DOMAIN sinkLog : sinkLog[k] = response[i]
        /\ (fetchState[i] = AbortError /\ RoundDone) =>
              returned[i].status = "timeout"

\* A node that did not answer in time and was reported as a timeout.
C6_Witness ==
    \E i \in Probes :
        /\ pc[i] = "done"
        /\ timer[i] = "fired"
        /\ response[i].status = "timeout"
        /\ results[i].status = "timeout"

\* The state of probe i.
probeState(i) ==
    <<pc[i], fetchState[i], requestUrl[i], timer[i], aborted[i], response[i],
      deadline[i]>>

\* C7: every step other than the start of a round changes the state of at most one probe, so a
\* response, a failure or a timeout of one node leaves the fetch, the timer,
\* the abort signal and the result of every other node as they were; a node's
\* abort signal is triggered only by its own timer at its own deadline, and
\* its result is determined by its own fetch outcome alone.
C7_FailureIsolation ==
    [][~(~querying /\ querying') =>
          /\ \A i, j \in Probes :
                (i # j /\ probeState(i)' # probeState(i))
                    => probeState(j)' = probeState(j)
          /\ \A i \in Probes :
                (aborted'[i] /\ ~aborted[i])
                    => (timer[i] = "armed" /\ now >= deadline[i])
          /\ \A i \in Probes :
                response'[i] # response[i]
                    => response'[i]
                         = queryNode(nodes[i], params, fetchState[i]).value
          /\ \A i \in Probes :
                results'[i] # results[i] => probeState(i)' # probeState(i)
      ]_vars

\* A node that answered with success after another node of the round had run
\* into its deadline.
C7_Witness ==
    \E i, j \in Probes :
        /\ response[i].status = "timeout"
        /\ response[j].status = "success"
        /\ SettledAt(i) < SettledAt(j)

\* C8: queryNode never throws, and for every outcome of its fetch (a success
\* status, another status, an abort, any other failure) it has returned a
\* result exactly when the probe is past it, whose status is success, error
\* or timeout and never pending.
C8_QueryNodeTotal ==
    \A i \in Probes :
        /\ pc[i] # "failed"
        /\ pc[i] \in {"fetch", "queryNode"} <=> response[i] = NoResponse
        /\ response[i] # NoResponse =>
              /\ response[i].status \in Terminal
              /\ response[i].nodeId = nodes[i].id
              /\ (response[i].status = "success")
                    <=> (fetchState[i].kind = "response"
                         /\ fetchState[i].status \in 200..299)
              /\ (response[i].status = "timeout") <=> (fetchState[i] = AbortError)

\* queryNode returned for a fetch that rejected with something that is not an
\* Error.
C8_Witness ==
    /\ 1 \in Probes
    /\ pc[1] = "done"
    /\ fetchState[1].kind = "throw"
    /\ ~fetchState[1].isError
    /\ response[1].status = "error"

\* The decimal text of the status codes of the probe specification.
StatusText(c) ==
    CASE c = 304 -> <<"3", "0", "4">>
      [] c = 404 -> <<"4", "0", "4">>
      [] c = 500 -> <<"5", "0", "0">>

\* C9: for a response with a non-success status code c queryNode returns
\* status error with the error text "HTTP c", and the result has no
\* numSpecies, numStates, numTransitions and no downloadUrl.
C9_HttpErrorResult ==
    \A i \in Probes :
        (/\ response[i] # NoResponse
         /\ fetchState[i].kind = "response"
         /\ fetchState[i].status \notin 200..299)
        => /\ response[i].status = "error"
           /\ response[i].error
                = <<"H", "T", "T", "P", " ">> \o StatusText(fetchState[i].status)
           /\ DOMAIN response[i] = {"nodeId", "nodeName", "status", "error"}

\* A 304 answer that carried all statistics headers.
C9_Witness ==
    /\ 1 \in Probes
    /\ pc[1] = "done"
    /\ fetchState[1].kind = "response"
    /\ fetchState[1].status = 304
    /\ fetchState[1].headers # <<>>
    /\ response[1].status = "error"

\* Whether a header of one of the given names was sent.
HasHeader(hs, names) == \E k \in DOMAIN hs : hs[k][1] \in names

SpeciesNames ==
    {<<"V", "A", "M", "D", "C", "-", "C", "O", "U", "N", "T", "-",
       "S", "P", "E", "C", "I", "E", "S">>,
     <<"v", "a", "m", "d", "c", "-", "c", "o", "u", "n", "t", "-",
       "s", "p", "e", "c", "i", "e", "s">>}

StatesNames ==
    {<<"V", "A", "M", "D", "C", "-", "C", "O", "U", "N", "T", "-",
       "S", "T", "A", "T", "E", "S">>,
     <<"v", "a", "m", "d", "c", "-", "c", "o", "u", "n", "t", "-",
       "s", "t", "a", "t", "e", "s">>}

RadiativeNames ==
    {<<"V", "A", "M", "D", "C", "-", "C", "O", "U", "N", "T", "-",
       "R", "A", "D", "I", "A", "T", "I", "V", "E">>,
     <<"v", "a", "m", "d", "c", "-", "c", "o", "u", "n", "t", "-",
       "r", "a", "d", "i", "a", "t", "i", "v", "e">>}

\* The headers of the scenario: SPECIES 12, STATES 40, no RADIATIVE.
ScenarioHeaders ==
    <<<<<<"V", "A", "M", "D", "C", "-", "C", "O", "U", "N", "T", "-",
          "S", "P", "E", "C", "I", "E", "S">>, <<"1", "2">>>>,
      <<<<"v", "a", "m", "d", "c", "-", "c", "o", "u", "n", "t", "-",
          "s", "t", "a", "t", "e", "s">>, <<"4", "0">>>>>>

\* C10: a success result has numSpecies, numStates and numTransitions, and
\* each of them whose header was not sent is 0; for the headers SPECIES 12 and
\* STATES 40 the result has numSpecies 12, numStates 40, numTransitions 0.
C10_AbsentHeaderIsZero ==
    \A i \in Probes :
        (response[i] # NoResponse /\ response[i].status = "success")
        => LET hs == fetchState[i].headers
               r == response[i]
           IN  /\ {"numSpecies", "numStates", "numTransitions"} \subseteq DOMAIN r
               /\ ~HasHeader(hs, SpeciesNames) => r.numSpecies = 0
               /\ ~HasHeader(hs, StatesNames) => r.numStates = 0
               /\ ~HasHeader(hs, RadiativeNames) => r.numTransitions = 0
               /\ hs = ScenarioHeaders =>
                     /\ r.numSpecies = 12
                     /\ r.numStates = 40
                     /\ r.numTransitions = 0

\* The scenario: SPECIES 12 and STATES 40 were sent, RADIATIVE was not.
C10_Witness ==
    /\ 1 \in Probes
    /\ pc[1] = "done"
    /\ fetchState[1].kind = "response"
    /\ fetchState[1].headers = ScenarioHeaders
    /\ response[1].status = "success"
    /\ response[1].numTransitions = 0
    /\ results[1].numSpecies = 12

\* The values sent under one of the given header names.
ValuesOf(hs, names) == {hs[k][2] : k \in {j \in DOMAIN hs : hs[j][1] \in names}}

\* A header value that holds no digit.
NonNumeric(v) == \A k \in DOMAIN v : v[k] \notin DigitSet

\* C11: on a success response a statistics header that is present with a
\* non-numeric value gives 0 for its field (numSpecies, numStates,
\* numTransitions), and the result is still of status success.
C11_NonNumericIsZero ==
    \A i \in Probes :
        (/\ response[i] # NoResponse
         /\ fetchState[i].kind = "response"
         /\ fetchState[i].status \in 200..299)
        => LET hs == fetchState[i].headers
               r == response[i]
           IN  /\ r.status = "success"
               /\ (\E v \in ValuesOf(hs, SpeciesNames) : NonNumeric(v))
                     => r.numSpecies = 0
               /\ (\E v \in ValuesOf(hs, StatesNames) : NonNumeric(v))
                     => r.numStates = 0
               /\ (\E v \in ValuesOf(hs, RadiativeNames) : NonNumeric(v))
                     => r.numTransitions = 0

StatFields == {"numSpecies", "numStates", "numTransitions"}

\* C12: every result queryNode produced has numSpecies, numStates and
\* numTransitions exactly when its status is success, has downloadUrl exactly
\* when its status is success, and then it is the url the probe's fetch was
\* called with, and has error exactly when its status is error or timeout.
C12_FieldPresence ==
    \A i \in Probes :
        response[i] # NoResponse =>
            LET r == response[i]
            IN  /\ \A f \in StatFields : f \in DOMAIN r <=> r.status = "success"
                /\ "downloadUrl" \in DOMAIN r <=> r.status = "success"
                /\ r.status = "success" => r.downloadUrl = requestUrl[i]
                /\ "error" \in DOMAIN r <=> r.status \in {"error", "timeout"}

\* A success result for a query whose minimum exceeds its maximum.
C12_Witness ==
    /\ 1 \in Probes
    /\ pc[1] = "done"
    /\ params.wavelengthMin > params.wavelengthMax
    /\ response[1].status = "success"
    /\ response[1].downloadUrl = requestUrl[1]
    /\ Len(requestUrl[1]) > Len(nodes[1].tapEndpoint)

\* C13: the step that starts a round creates one entry of status pending for
\* every node of the list; in every later step an entry changes only from
\* pending to a terminal status (success, error, timeout) of its own node, an
\* entry of terminal status never changes again, and when the round ends
\* every entry has changed.
C13_PendingThenTerminalOnce ==
    [][/\ (~querying /\ querying') =>
             /\ Len(results') = Len(nodes)
             /\ \A i \in 1..Len(nodes) :
                   results'[i] = [nodeId |-> nodes[i].id,
                                  nodeName |-> nodes[i].name,
                                  status |-> "pending"]
       /\ ~(~querying /\ querying') =>
             /\ Len(results') = Len(results)
             /\ \A i \in DOMAIN results :
                   /\ results[i].status \in Terminal => results'[i] = results[i]
                   /\ results'[i] # results[i] =>
                         /\ results[i].status = "pending"
                         /\ results'[i].status \in Terminal
                         /\ results'[i].nodeId = nodes[i].id
       /\ (querying /\ ~querying') =>
             \A i \in DOMAIN results : results'[i].status \in Terminal
      ]_vars

\* A finished round over two nodes: the first ran into its deadline after
\* the second had answered.
C13_Witness ==
    /\ ~querying
    /\ RoundDone
    /\ N >= 2
    /\ results[1].status = "timeout"
    /\ results[2].status = "success"
    /\ settleOrder = <<2, 1>>

\* C14: the progress sink is handed a copy: whatever the sink does to the
\* value it receives, the result of that node in the array queryAllNodes
\* resolves to is the result that was handed to the sink.
C14_SinkGetsCopy ==
    RoundDone =>
        \A k \in DOMAIN sinkLog : returned[settleOrder[k]] = sinkLog[k]

\* The registry answered with a document and fetchNodes has parsed it.
LiveResolved ==
    /\ ~loading
    /\ answer.kind = "response"
    /\ "doc" \in DOMAIN answer
    /\ answer.status \in 200..299

\* The record holds at least one candidate url: its url text has a
\* character that is no white space.
HasCandidate(el) ==
    /\ el.url # Null
    /\ \E k \in DOMAIN el.url : el.url[k] \notin {" ", "\t", "\n", "\r"}

\* The nodes of ns that stem from the record at (1-based) position k.
NodesOf(ns, k) ==
    {j \in DOMAIN ns : ns[j].id = <<"n", "o", "d", "e", "-">> \o NumToStr(k - 1)}

\* C15: of the records of a registry document, each one that holds at least
\* one candidate url yields exactly one node, whose tapEndpoint ends with
\* '/', each one that holds none yields no node, and there are as many nodes
\* as records with a url.
C15_OneNodePerRecordWithUrl ==
    LiveResolved =>
        LET els == answer.doc
        IN  /\ \A k \in DOMAIN els :
                  IF HasCandidate(els[k])
                  THEN /\ Cardinality(NodesOf(nodes, k)) = 1
                       /\ \A j \in NodesOf(nodes, k) :
                             nodes[j].tapEndpoint[Len(nodes[j].tapEndpoint)] = "/"
                  ELSE NodesOf(nodes, k) = {}
            /\ Len(nodes) = Cardinality({k \in DOMAIN els : HasCandidate(els[k])})

\* The first position of s from k on that holds white space (Len(s) + 1 if
\* none does).
RECURSIVE NextSpace(_, _)
NextSpace(s, k) ==
    IF k > Len(s) \/ s[k] \in {" ", "\t", "\n", "\r"} THEN k
    ELSE NextSpace(s, k + 1)

\* The first position of s from k on that holds no white space.
RECURSIVE NextNonSpace(_, _)
NextNonSpace(s, k) ==
    IF k > Len(s) \/ s[k] \notin {" ", "\t", "\n", "\r"} THEN k
    ELSE NextNonSpace(s, k + 1)

\* The first of the white-space-separated candidates of a url text.
FirstCandidate(s) ==
    LET a == NextNonSpace(s, 1) IN SubSeq(s, a, NextSpace(s, a) - 1)

\* C16: the node of a record whose url text holds white-space-separated
\* candidate urls has the first candidate as its tapEndpoint, with '/'
\* appended if it lacks one: no later candidate and no white space is part
\* of it, whatever white space separates or precedes the candidates.
C16_FirstCandidateOnly ==
    LiveResolved =>
        \A k \in DOMAIN answer.doc :
            HasCandidate(answer.doc[k]) =>
                LET first == FirstCandidate(answer.doc[k].url)
                    expected == IF first[Len(first)] = "/" THEN first
                                ELSE first \o <<"/">>
                IN  /\ NodesOf(nodes, k) # {}
                    /\ \A j \in NodesOf(nodes, k) :
                          nodes[j].tapEndpoint = expected

\* s starts with the sequence pre.
StartsWith(s, pre) == Len(s) >= Len(pre) /\ SubSeq(s, 1, Len(pre)) = pre

\* C17: under either strategy every node of the list fetchNodes resolved to
\* has a tapEndpoint that ends with '/', and the url of every probe is that
\* tapEndpoint followed by sync?LANG=VSS2&REQUEST=doQuery&FORMAT=XSAMS&QUERY=
\* and more, so that a '/' stands right before "sync".
C17_EndpointEndsWithSlash ==
    /\ \A j \in DOMAIN nodes :
          /\ nodes[j].tapEndpoint # <<>>
          /\ nodes[j].tapEndpoint[Len(nodes[j].tapEndpoint)] = "/"
    /\ \A i \in Probes :
          LET base == nodes[i].tapEndpoint
          IN  /\ StartsWith(requestUrl[i],
                    base \o <<"s", "y", "n", "c", "?", "L", "A", "N", "G", "=",
                              "V", "S", "S", "2", "&", "R", "E", "Q", "U", "E",
                              "S", "T", "=", "d", "o", "Q", "u", "e", "r", "y",
                              "&", "F", "O", "R", "M", "A", "T", "=", "X", "S",
                              "A", "M", "S", "&", "Q", "U", "E", "R", "Y", "=">>)
              /\ Len(requestUrl[i]) > Len(base) + 50
              /\ requestUrl[i][Len(base)] = "/"

\* A probe of a node whose registry record gave its url without the
\* trailing '/'.
C17_Witness ==
    /\ LiveResolved
    /\ 1 \in Probes
    /\ answer.doc # <<>>
    /\ answer.doc[1].url = <<"h", ":", "/", "/", "a">>
    /\ StartsWith(requestUrl[1],
                  <<"h", ":", "/", "/", "a", "/", "s", "y", "n", "c", "?">>)

\* node j of ns stems from record k of els: it carries the record's
\* position (counted from 0) in its id and the record's title as its name.
StemsFrom(ns, j, els, k) ==
    /\ ns[j].id = <<"n", "o", "d", "e", "-">> \o NumToStr(k - 1)
    /\ els[k].url # Null
    /\ ns[j].name = (IF els[k].title = Null \/ els[k].title = <<>>
                     THEN <<"U", "n", "k", "n", "o", "w", "n">>
                     ELSE els[k].title)

\* C18: the ids of the nodes of one resolution are pairwise distinct; under
\* the live strategy the nodes are in the order of their records and the id
\* of each is "node-<index>", index being the position of its record in the
\* document, whether or not records without a url were dropped before it.
C18_IdsDistinct ==
    ~loading =>
        /\ \A i, j \in DOMAIN nodes : nodes[i].id = nodes[j].id => i = j
        /\ LiveResolved =>
              \E f \in [DOMAIN nodes -> DOMAIN answer.doc] :
                  /\ \A i, j \in DOMAIN nodes : i < j => f[i] < f[j]
                  /\ \A j \in DOMAIN nodes : StemsFrom(nodes, j, answer.doc, f[j])

\* A resolution whose first record had no url: the node of the second record
\* is the first of the list and has the id node-1.
C18_Witness ==
    /\ LiveResolved
    /\ Len(answer.doc) >= 2
    /\ answer.doc[1].url = Null
    /\ Len(nodes) = 1
    /\ nodes[1].id = <<"n", "o", "d", "e", "-", "1">>

\* The fixed parts of a probe url after the base url, as the code encodes
\* them.
ProbeUrlHead ==
    <<"s", "y", "n", "c", "?", "L", "A", "N", "G", "=", "V", "S", "S", "2",
      "&", "R", "E", "Q", "U", "E", "S", "T", "=", "d", "o", "Q", "u", "e",
      "r", "y", "&", "F", "O", "R", "M", "A", "T", "=", "X", "S", "A", "M",
      "S", "&", "Q", "U", "E", "R", "Y", "=", "S", "E", "L", "E", "C", "T",
      "%", "2", "0", "*", "%", "2", "0", "W", "H", "E", "R", "E", "%", "2",
      "0", "R", "a", "d", "T", "r", "a", "n", "s", "W", "a", "v", "e", "l",
      "e", "n", "g", "t", "h", "%", "2", "0", "%", "3", "E", "%", "3", "D",
      "%", "2", "0">>

ProbeUrlMid ==
    <<"%", "2", "0", "A", "N", "D", "%", "2", "0", "R", "a", "d", "T", "r",
      "a", "n", "s", "W", "a", "v", "e", "l", "e", "n", "g", "t", "h", "%",
      "2", "0", "%", "3", "C", "%", "3", "D", "%", "2", "0">>

\* The decimal text of the wavelengths of the probe specification.
WavelengthText(n) ==
    CASE n = 0 -> <<"0">>
      [] n = 10 -> <<"1", "0">>
      [] n = 4000 -> <<"4", "0", "0", "0">>
      [] n = 5000 -> <<"5", "0", "0", "0">>

ScenarioBase ==
    <<"h", "t", "t", "p", "s", ":", "/", "/", "x", ".", "o", "r", "g", "/",
      "t", "a", "p", "/">>

\* The probe url of the scenario with the '*' of the predicate left as it is.
ScenarioUrl ==
    <<"h", "t", "t", "p", "s", ":", "/", "/", "x", ".", "o", "r", "g", "/",
      "t", "a", "p", "/", "s", "y", "n", "c", "?", "L", "A", "N", "G", "=",
      "V", "S", "S", "2", "&", "R", "E", "Q", "U", "E", "S", "T", "=", "d",
      "o", "Q", "u", "e", "r", "y", "&", "F", "O", "R", "M", "A", "T", "=",
      "X", "S", "A", "M", "S", "&", "Q", "U", "E", "R", "Y", "=", "S", "E",
      "L", "E", "C", "T", "%", "2", "0", "*", "%", "2", "0", "W", "H", "E",
      "R", "E", "%", "2", "0", "R", "a", "d", "T", "r", "a", "n", "s", "W",
      "a", "v", "e", "l", "e", "n", "g", "t", "h", "%", "2", "0", "%", "3",
      "E", "%", "3", "D", "%", "2", "0", "4", "0", "0", "0", "%", "2", "0",
      "A", "N", "D", "%", "2", "0", "R", "a", "d", "T", "r", "a", "n", "s",
      "W", "a", "v", "e", "l", "e", "n", "g", "t", "h", "%", "2", "0", "%",
      "3", "C", "%", "3", "D", "%", "2", "0", "5", "0", "0", "0">>

\* The probe url of the scenario with the '*' of the predicate as %2A.
ScenarioUrlOfSpec ==
    <<"h", "t", "t", "p", "s", ":", "/", "/", "x", ".", "o", "r", "g", "/",
      "t", "a", "p", "/", "s", "y", "n", "c", "?", "L", "A", "N", "G", "=",
      "V", "S", "S", "2", "&", "R", "E", "Q", "U", "E", "S", "T", "=", "d",
      "o", "Q", "u", "e", "r", "y", "&", "F", "O", "R", "M", "A", "T", "=",
      "X", "S", "A", "M", "S", "&", "Q", "U", "E", "R", "Y", "=", "S", "E",
      "L", "E", "C", "T", "%", "2", "0", "%", "2", "A", "%", "2", "0", "W",
      "H", "E", "R", "E", "%", "2", "0", "R", "a", "d", "T", "r", "a", "n",
      "s", "W", "a", "v", "e", "l", "e", "n", "g", "t", "h", "%", "2", "0",
      "%", "3", "E", "%", "3", "D", "%", "2", "0", "4", "0", "0", "0", "%",
      "2", "0", "A", "N", "D", "%", "2", "0", "R", "a", "d", "T", "r", "a",
      "n", "s", "W", "a", "v", "e", "l", "e", "n", "g", "t", "h", "%", "2",
      "0", "%", "3", "C", "%", "3", "D", "%", "2", "0", "5", "0", "0", "0">>

IsScenario(i) ==
    /\ nodes[i].tapEndpoint = ScenarioBase
    /\ params = [wavelengthMin |-> 4000, wavelengthMax |-> 5000]

\* C19 as stated: for min 4000, max 5000 and the base url https://x.org/tap/
\* the probe url is exactly
\* https://x.org/tap/sync?LANG=VSS2&REQUEST=doQuery&FORMAT=XSAMS&QUERY=SELECT%20%2A%20WHERE%20RadTransWavelength%20%3E%3D%204000%20AND%20RadTransWavelength%20%3C%3D%205000.
C19_ProbeUrlOfSpec ==
    \A i \in Probes : IsScenario(i) => requestUrl[i] = ScenarioUrlOfSpec

\* C19, amended: the probe url is the base url followed by
\* sync?LANG=VSS2&REQUEST=doQuery&FORMAT=XSAMS&QUERY= and the predicate
\* encoded by encodeURIComponent, which leaves '*' as it is, with
\* wavelengthMin and wavelengthMax in decimal, in this order, also when min
\* exceeds max; for min 4000, max 5000 and the base url https://x.org/tap/ it
\* is exactly
\* https://x.org/tap/sync?LANG=VSS2&REQUEST=doQuery&FORMAT=XSAMS&QUERY=SELECT%20*%20WHERE%20RadTransWavelength%20%3E%3D%204000%20AND%20RadTransWavelength%20%3C%3D%205000.
C19_ProbeUrl ==
    \A i \in Probes :
        /\ requestUrl[i]
              = nodes[i].tapEndpoint \o ProbeUrlHead
                  \o WavelengthText(params.wavelengthMin) \o ProbeUrlMid
                  \o WavelengthText(params.wavelengthMax)
        /\ IsScenario(i) => requestUrl[i] = ScenarioUrl

\* The scenario: a probe of https://x.org/tap/ for 4000 to 5000 that ended
\* in success, its downloadUrl being the probe url.
C19_Witness ==
    /\ 1 \in Probes
    /\ IsScenario(1)
    /\ pc[1] = "done"
    /\ response[1].status = "success"
    /\ response[1].downloadUrl = ScenarioUrl

\* The node source did not answer with a success status.
SourceFailed ==
    \/ answer.kind = "throw"
    \/ answer.kind = "response" /\ answer.status \notin 200..299

\* C20: when the node source (the registry or the static resource) is
\* unreachable or answers with a status that is no success status, also with
\* a body that holds nodes, the application holds no node, its error is the
\* message of the failure ("Registry fetch failed: " or "Failed to load
\* nodes: " with the status text, or the message fetch rejected with), and
\* loading is false.
C20_ResolutionFailure ==
    SourceFailed =>
        /\ nodes = <<>>
        /\ ~loading
        /\ error # <<"null">>
        /\ error =
             (IF answer.kind = "throw" THEN answer.message
              ELSE IF "doc" \in DOMAIN answer
                   THEN <<"R", "e", "g", "i", "s", "t", "r", "y", " ", "f", "e",
                          "t", "c", "h", " ", "f", "a", "i", "l", "e", "d", ":",
                          " ">> \o answer.statusText
                   ELSE <<"F", "a", "i", "l", "e", "d", " ", "t", "o", " ", "l",
                          "o", "a", "d", " ", "n", "o", "d", "e", "s", ":", " ">>
                        \o answer.statusText)

\* The static resource answered 500 with a body that holds a node, and a
\* query round over the empty list has run since.
C20_Witness ==
    /\ answer.kind = "response"
    /\ answer.status = 500
    /\ "json" \in DOMAIN answer
    /\ answer.json.valid
    /\ nodes = <<>>
    /\ ~loading
    /\ RoundDone
    /\ ~querying

\* C21: between two tasks of the event loop no probe whose fetch has settled
\* has its timer armed, and a probe that has run to its end never has; the
\* abort signal of a probe is triggered only while its fetch has not settled;
\* and when the promise of queryAllNodes is resolved no timer of the round is
\* armed.
C21_TimerClearedOnSettlement ==
    /\ [](\A i \in Probes :
             /\ (mq = <<>> /\ pc[i] # "fetch") => timer[i] # "armed"
             /\ pc[i] = "done" => timer[i] # "armed"
             /\ RoundDone => timer[i] # "armed")
    /\ [][\A i \in Probes :
             (i \in DOMAIN aborted' /\ aborted'[i] /\ ~aborted[i])
                => (pc[i] = "fetch" /\ fetchState[i] = Pending)]_vars

\* A finished round in which the timer of a node that answered was cleared
\* after time had passed and the timer of another node had fired.
C21_Witness ==
    /\ RoundDone
    /\ ~querying
    /\ \E i, j \in Probes :
          /\ timer[i] = "cleared"
          /\ response[i].status = "success"
          /\ timer[j] = "fired"
          /\ SettledAt(j) < SettledAt(i)

\* C22: the step that starts a round issues one request for every node of the
\* list, and no later step of the round issues one: a probe whose fetch has
\* settled, be it with an error or by the abort, keeps that outcome and its
\* url and never waits for a fetch again.
C22_OneRequestPerNode ==
    [][IF ~querying /\ querying'
       THEN /\ DOMAIN pc' = DOMAIN nodes
            /\ DOMAIN requestUrl' = DOMAIN nodes
            /\ \A i \in DOMAIN nodes :
                  pc'[i] = "fetch" /\ fetchState'[i] = Pending
       ELSE /\ DOMAIN pc' = DOMAIN pc
            /\ requestUrl' = requestUrl
            /\ \A i \in Probes :
                  /\ pc'[i] = "fetch" => pc[i] = "fetch"
                  /\ fetchState[i] # Pending => fetchState'[i] = fetchState[i]
      ]_vars

\* A finished round in which one node answered with an error status, one
\* request failed and one ran into its deadline.
C22_Witness ==
    /\ RoundDone
    /\ ~querying
    /\ \E i, j, k \in Probes :
          /\ fetchState[i].kind = "response" /\ response[i].status = "error"
          /\ fetchState[j].kind = "throw" /\ response[j].status = "error"
          /\ response[k].status = "timeout"

\* Probe i has been started: its request is out or has settled, and its
\* timer has been set.
Started(i) ==
    /\ i \in DOMAIN pc
    /\ pc[i] \in {"fetch", "queryNode", "map", "done"}
    /\ timer[i] \in {"armed", "cleared", "fired"}

\* C23: the step that calls queryAllNodes puts the probe of every node in
\* flight and arms its timer, with the full 30 seconds to run, before any
\* probe has settled and before any call of the sink; so whenever a probe has
\* settled or the sink has been called, every probe of the round has been
\* started, and a probe is in flight whatever state the others are in.
C23_AllStartedAtOnce ==
    /\ [][(~querying /\ querying') =>
             /\ DOMAIN pc' = DOMAIN nodes
             /\ \A i \in DOMAIN nodes :
                   /\ pc'[i] = "fetch"
                   /\ fetchState'[i] = Pending
                   /\ timer'[i] = "armed"
                   /\ deadline'[i] = now' + 30000
             /\ settleOrder' = <<>>
             /\ sinkLog' = <<>>]_vars
    /\ [](querying => \A i \in DOMAIN nodes : Started(i))

\* Three probes in flight at once, none settled, the sink not yet called.
C23_Witness ==
    /\ querying
    /\ N >= 3
    /\ \A i \in 1..N : pc[i] = "fetch" /\ timer[i] = "armed"
    /\ settleOrder = <<>>
    /\ sinkLog = <<>>
    /\ now > 0

\* C24: the sink is called for a node after clearTimeout has been called on
\* that node's timer and while the promise queryAllNodes returned is still
\* pending; when that promise resolves the sink has been called for all N
\* nodes, and each call was given the result that the resolved array holds
\* for its node.
C24_SinkBeforeReturn ==
    /\ [][Len(sinkLog') = Len(sinkLog) + 1 =>
             /\ Len(sinkLog') <= Len(settleOrder)
             /\ LET i == settleOrder[Len(sinkLog')]
                IN  /\ pc[i] = "map"
                    /\ timer'[i] \in {"cleared", "fired"}
                    /\ sinkLog'[Len(sinkLog')] = response[i]
             /\ allState = "pending"
             /\ allState' = "pending"]_vars
    /\ [][(allState # "fulfilled" /\ allState' = "fulfilled") =>
             /\ Len(sinkLog) = N
             /\ sinkLog' = sinkLog]_vars
    /\ [](RoundDone =>
             /\ Len(sinkLog) = N
             /\ Len(returned) = N
             /\ \A i \in 1..N : \E k \in 1..N :
                   /\ settleOrder[k] = i
                   /\ sinkLog[k] = returned[i])

\* A resolved round over three nodes whose probes settled in another order
\* than the input's: the sink saw a success with a cleared timer and a
\* timeout whose timer had fired.
C24_Witness ==
    /\ RoundDone
    /\ N = 3
    /\ settleOrder = <<3, 1, 2>>
    /\ sinkLog[1].status = "success" /\ timer[3] = "cleared"
    /\ sinkLog[3].status = "timeout" /\ timer[2] = "fired"
    /\ returned[2] = sinkLog[3]

\* C25: a probe's result is a timeout only if the probe's own timer fired
\* while its fetch had not settled; a fetch that settled by itself, with a
\* response or a failure, found the timer not fired and never gives a
\* timeout; and once a probe has its result neither the passing of its
\* deadline nor any timer changes that result or its entry in the list.
C25_TimeoutOnlyByOwnTimer ==
    /\ [](\A i \in Probes :
             /\ (response[i] # NoResponse /\ response[i].status = "timeout")
                   => (timer[i] = "fired" /\ aborted[i] /\ now >= deadline[i])
             /\ (fetchState[i] # Pending /\ fetchState[i] # AbortError
                 /\ response[i] # NoResponse)
                   => (response[i].status # "timeout" /\ timer[i] # "fired")
             /\ (pc[i] = "done" /\ response[i].status # "timeout")
                   => (timer[i] = "cleared" /\ ~aborted[i]))
    /\ [][~(~querying /\ querying') =>
             \A i \in Probes :
                /\ (timer[i] # "fired" /\ timer'[i] = "fired")
                      => (pc[i] = "fetch" /\ fetchState[i] = Pending
                          /\ now >= deadline[i])
                /\ (fetchState[i] = Pending /\ fetchState'[i] # Pending
                    /\ fetchState'[i] # AbortError)
                      => (timer[i] = "armed" /\ timer'[i] = "armed")
                /\ response[i] # NoResponse => response'[i] = response[i]
                /\ pc[i] = "done" => results'[i] = results[i]]_vars

\* A node answered with success before its deadline; the deadline has passed
\* since, another node of the round has run into it, and the first node's
\* result is still the success.
C25_Witness ==
    \E i, j \in Probes :
        /\ fetchState[i].kind = "response"
        /\ response[i].status = "success"
        /\ results[i].status = "success"
        /\ timer[i] = "cleared"
        /\ now >= deadline[i]
        /\ SettledAt(i) < SettledAt(j)
        /\ timer[j] = "fired"
        /\ results[j].status = "timeout"

\* The step is a call of handleQuery: a task that leaves every entry of the
\* results list pending and every probe of the node list freshly started.
RoundStart ==
    /\ mq = <<>>
    /\ allState' \in {"pending", "fulfilled"}
    /\ results' = pendingResults(nodes)
    /\ DOMAIN pc' = DOMAIN nodes
    /\ \A i \in DOMAIN pc' : pc'[i] = "fetch" /\ response'[i] = NoResponse
    /\ settleOrder' = <<>>
    /\ sinkLog' = <<>>
    /\ now' = 0

\* C26: the form is disabled while querying or loading is true, and querying
\* is true exactly from the call of handleQuery until the promise of
\* queryAllNodes has resolved, every probe being done by then; so handleQuery
\* is called only when no round is in progress, and the results list is
\* written only by handleQuery itself and by the sink calls of the probes of
\* the round that is in progress, each with its own node's result.
C26_OneRoundAtATime ==
    /\ []((querying \/ loading) => ~formEnabled)
    /\ []((\E i \in Probes : pc[i] # "done") => querying)
    /\ [](~querying => allState \in {"none", "fulfilled"})
    /\ [][RoundStart =>
             /\ ~querying /\ ~loading
             /\ querying'
             /\ \A i \in Probes : pc[i] = "done" /\ timer[i] # "armed"
             /\ Len(sinkLog) = Len(pc)]_vars
    /\ [][(querying /\ ~querying') =>
             (RoundDone /\ \A i \in Probes : pc[i] = "done")]_vars
    /\ [][(results' # results /\ ~RoundStart) =>
             /\ querying /\ querying'
             /\ \E i \in Probes :
                   /\ pc[i] = "map" /\ pc'[i] = "done"
                   /\ response[i].nodeId = nodes[i].id
                   /\ results' = onProgress(results, response[i])]_vars

\* A round in progress with the form disabled: one node's result has been
\* written to the list by the sink, another node's probe is still in flight.
C26_Witness ==
    /\ querying
    /\ ~formEnabled
    /\ \E i, j \in Probes :
          /\ pc[i] = "done"
          /\ results[i] = response[i]
          /\ results[i].status = "error"
          /\ pc[j] = "fetch"
          /\ results[j].status = "pending"
          /\ now > 0

\* C27: the progress count is at most the number of nodes; from the call of
\* handleQuery, which sets it to 0 of N, it never decreases, and every call
\* of the sink raises it by one; when querying becomes false it is N of N,
\* no entry of the list being pending.
C27_ProgressCount ==
    /\ [](completed <= total /\ completed <= N)
    /\ [](querying => total = N)
    /\ [][RoundStart => (completed' = 0 /\ total' = N)]_vars
    /\ [][~RoundStart =>
             /\ completed' >= completed
             /\ Len(sinkLog') = Len(sinkLog) + 1 => completed' = completed + 1
             /\ (querying /\ querying') => completed' = Len(sinkLog')]_vars
    /\ [][(querying /\ ~querying') =>
             /\ completed' = total'
             /\ total' = N
             /\ \A k \in DOMAIN results' : results'[k].status # "pending"]_vars

\* "2/3 complete": a round over three nodes, two of which have their result.
C27_Witness ==
    /\ querying
    /\ total = 3
    /\ completed = 2
    /\ \E k \in DOMAIN results : results[k].status = "timeout"

\* The probes whose map callback has run to its end or to the sink's throw.
Finished == {i \in Probes : pc[i] \in {"done", "failed"}}

\* C28: when the sink throws on its call for one node, that node's timer has
\* been cleared and the step changes nothing of any other probe; the sink is
\* called once for every probe whose fetch has settled, whether or not an
\* earlier call threw; and every other probe goes on to settle, so that in
\* the end every probe has settled, the sink has been called once for each
\* of the N nodes and no timer is armed.
C28_SinkThrowIsolated ==
    /\ [](\A i \in Finished : timer[i] # "armed")
    /\ []((mq = <<>>) =>
             /\ Len(sinkLog) = Cardinality(Finished)
             /\ Len(sinkLog) = Len(settleOrder)
             /\ \A k \in DOMAIN sinkLog :
                   /\ settleOrder[k] \in Finished
                   /\ sinkLog[k] = response[settleOrder[k]]
                   /\ \A l \in DOMAIN sinkLog :
                         settleOrder[l] = settleOrder[k] => l = k)
    /\ [][\A i \in Probes :
             (i \in DOMAIN pc' /\ pc[i] # "failed" /\ pc'[i] = "failed") =>
                /\ pc[i] = "map"
                /\ timer'[i] \in {"cleared", "fired"}
                /\ \A j \in Probes \ {i} : probeState(j)' = probeState(j)]_vars
    /\ (\E i \in Probes : pc[i] = "failed")
          ~> (/\ \A j \in Probes :
                    /\ j \in Finished
                    /\ fetchState[j] # Pending
                    /\ timer[j] # "armed"
              /\ Len(sinkLog) = N
              /\ mq = <<>>)

\* The sink threw on the first of its three calls; the other two probes
\* settled afterwards, one by its deadline, and the sink was called for both.
C28_Witness ==
    /\ N = 3
    /\ allState = "rejected"
    /\ querying
    /\ mq = <<>>
    /\ Len(sinkLog) = 3
    /\ pc[settleOrder[1]] = "failed"
    /\ timer[settleOrder[1]] = "cleared"
    /\ pc[settleOrder[2]] = "done"
    /\ pc[settleOrder[3]] = "done"
    /\ timer[settleOrder[3]] = "fired"
    /\ results[settleOrder[3]].status = "timeout"

==============================================================================
